---- MODULE Spec2Model ----
(***************************************************************************)
(* Persistent pipeline and shader cache of Dawn's D3D12 backend:           *)
(*   PersistentCache        (dawn_native/PersistentCache.{h,cpp})           *)
(*   SharedPipelineCaches   (dawn_native/d3d12/PipelineCacheD3D12.{h,cpp})  *)
(*   PipelineCache          (dawn_native/d3d12/PipelineCacheD3D12.{h,cpp})  *)
(*   FakePersistentCache    (tests/end2end/D3D12CachingTests.cpp), the      *)
(*                          CachingInterface the devices are run against.   *)
(*                                                                         *)
(* Spec   : every call is one step (each device's calls are serialized by  *)
(*          its call site, and the devices take turns).                     *)
(* SpecPC : the calls of the clients of PersistentCache, one step each.     *)
(* SpecMT : the devices of one adapter run on independent threads; the     *)
(*          steps are the registry accesses and the reference count        *)
(*          changes of SharedPipelineCaches::GetOrCreate and of the        *)
(*          release of a Ref<PipelineCache>.                               *)
(***************************************************************************)
EXTENDS Integers, Sequences, FiniteSets, TLC

\* ------------------------------------------------------------------ bounds
NumDevices == 2         \* logical devices created on the one adapter
MaxDescHash == 1        \* pipeline descriptor hashes 1..MaxDescHash
MaxWords == 2           \* SPIR-V modules of 1..MaxWords words
UuidSize == 2           \* bytes of a pipeline cache UUID
MaxRecords == 2         \* values recorded into one FingerprintRecorder
MaxGetKeys == 1         \* GetKey calls on one FingerprintRecorder

Devices == 1 .. NumDevices
\* PipelineCache objects (addresses); a freed address is used again.
CacheIds == 1 .. (NumDevices + 1)
\* CachedBlob objects (addresses): one per key of the store and one kept alive
\* by each PipelineCache.
BlobIds == 1 .. (NumDevices + 6)
DescHashes == 1 .. MaxDescHash
\* The descriptor hashes of two different pipelines baked between flushes.
FlushedHashes == {1, 2}

\* ------------------------------------------------------------------- keys
\* ---------------------------------------------------------- cache keys
\* A string is the sequence of its characters.
HexDigits == << "0", "1", "2", "3", "4", "5", "6", "7",
                "8", "9", "a", "b", "c", "d", "e", "f" >>

\* stream << std::hex << n: the digits of n in base 16, no padding, no prefix.
RECURSIVE ToHex(_)
ToHex(n) ==
    IF n < 16 THEN << HexDigits[n + 1] >>
    ELSE ToHex(n \div 16) \o << HexDigits[(n % 16) + 1] >>

\* stream << std::hex << x for every x of a sequence, one after the other.
RECURSIVE HexOfAll(_)
HexOfAll(words) ==
    IF words = <<>> THEN <<>>
    ELSE ToHex(Head(words)) \o HexOfAll(Tail(words))

\* The sequences over S of length 1 .. n.
SeqUpTo(S, n) == UNION { [1..k -> S] : k \in 1..n }

\* SingleShaderStage: Vertex, Fragment, Compute.
Stages == {0, 1, 2}

\* Entry point names: "m", "w1", "w4".
EntryPointNames == { << "m" >>, << "w", "1" >>, << "w", "4" >> }

\* The sources of shader modules: WGSL text, or SPIR-V words.
WgslTexts == { << "a" >>, << "b" >> }
SpirvWords == {1, 2, 18, 33}
ShaderModules ==
    { [mWgsl |-> w, mOriginalSpirv |-> <<>>] : w \in WgslTexts }
    \cup { [mWgsl |-> <<>>, mOriginalSpirv |-> ws] : ws \in SeqUpTo(SpirvWords, MaxWords) }

\* ShaderModule::CreateCacheKey without the entry point name.
CreateShaderCacheKey_NoEntryPoint(module, entryPointName, stage) ==
    module.mWgsl \o HexOfAll(module.mOriginalSpirv) \o ToHex(stage)

\* ShaderModule::CreateCacheKey(entryPointName, stage)
CreateShaderCacheKey(module, entryPointName, stage) ==
    module.mWgsl \o HexOfAll(module.mOriginalSpirv) \o ToHex(stage) \o entryPointName

\* The adapters: PCIInfo and PCIExtendedInfo. The pipeline cache UUID is
\* UuidSize bytes.
PciIds == {1, 2, 18, 33}
UuidBytes == {0, 1, 16, 17}
Adapters ==
    [ deviceId : PciIds, vendorId : PciIds, subSysId : PciIds,
      pipelineCacheUUID : {<<>>} ]
VkAdapters ==
    [ deviceId : {1, 18}, vendorId : {1, 18}, subSysId : {0},
      pipelineCacheUUID : [1..UuidSize -> UuidBytes] ]

\* PipelineCache::CreateCacheKey of the D3D12 backend.
CreatePipelineCacheKey(adapter) ==
    ToHex(adapter.deviceId) \o ToHex(adapter.vendorId) \o ToHex(adapter.subSysId)

\* PipelineCache::CreateCacheKey of the Vulkan backend.
CreatePipelineCacheKeyVk(adapter) ==
    ToHex(adapter.deviceId) \o ToHex(adapter.vendorId)
        \o HexOfAll(adapter.pipelineCacheUUID)

\* The shaders the devices compile: a WGSL module and two SPIR-V modules,
\* each with the entry points "m" and "w1" of the compute stage.
ComputeStage == 2
CompiledModules ==
    { [mWgsl |-> << "a" >>, mOriginalSpirv |-> <<>>],
      [mWgsl |-> <<>>, mOriginalSpirv |-> << 18 >>],
      [mWgsl |-> <<>>, mOriginalSpirv |-> << 1, 2 >>] }
CompiledEntryPoints == { << "m" >>, << "w", "1" >> }

\* Adapter::GetPipelineCacheKey(), the key of the compute shader "m" of the
\* WGSL module, and the keys the store can hold.
PipelineCacheKey == << "pipelineCache" >>
ShaderKey == CreateShaderCacheKey([mWgsl |-> << "a" >>, mOriginalSpirv |-> <<>>],
                                  << "m" >>, ComputeStage)
Keys ==
    {PipelineCacheKey}
    \cup { CreateShaderCacheKey(m, e, ComputeStage) :
              m \in CompiledModules, e \in CompiledEntryPoints }

\* ------------------------------------------------------------------ blobs
\* A CachedBlob is an object (id: its address) holding bytes (data).
\* Null is ScopedCachedBlob(nullptr).
Null == [id |-> 0, data |-> <<>>]

\* First byte of every serialized ID3D12PipelineLibrary.
LibraryMagic == 9

\* The (value, size) pairs handed to a doCache / StoreData call: nullptr with
\* size 0, a non-null pointer with size 0, and two non-empty byte strings.
StoreArgs ==
    { [isNull |-> TRUE, data |-> <<>>],
      [isNull |-> FALSE, data |-> <<>>],
      [isNull |-> FALSE, data |-> <<1>>],
      [isNull |-> FALSE, data |-> <<2>>] }

\* What a creation callback does: it fails before it reaches doCache, or it
\* calls doCache at most once, last, and succeeds (ShaderModule::Compile).
CreateFns ==
    { [stores |-> <<>>, err |-> TRUE], [stores |-> <<>>, err |-> FALSE] }
    \cup { [stores |-> <<a>>, err |-> FALSE] : a \in StoreArgs }

VARIABLES
    hasPlatformCache,        \* PersistentCache::mCache != nullptr
    supportsPipelineCaching, \* Adapter::GetDeviceInfo().supportsPipelineCaching
    isDebug,                 \* built with _DEBUG
    mPersistentCache,        \* the FakePersistentCache: [mCache, mIsDisabled]
    caches,                  \* the PipelineCache objects, by address
    mCache,                  \* SharedPipelineCaches::mCache (set of addresses)
    devCache,                \* the Ref<PipelineCache> each device holds (0: none)
    pc,                      \* SpecMT: where each device's thread stands
    tmp,                     \* SpecMT: the locals of each thread
    recorder,                \* the FingerprintRecorders and the calls made on them
    flushed,                 \* the pipelines a flush was asked to persist
    last                     \* what the last call did and returned

vars == << hasPlatformCache, supportsPipelineCaching, isDebug, mPersistentCache,
           caches, mCache, devCache, pc, tmp, recorder, flushed, last >>

config == << hasPlatformCache, supportsPipelineCaching, isDebug >>

Min(S) == CHOOSE x \in S : \A y \in S : x <= y

\* ---------------------------------------------------- FakePersistentCache
\* Addresses of the blobs something still refers to: the store's entries and
\* the seed blob of every live PipelineCache.
BlobsInUse(store, cs) ==
    { store.mCache[k].id : k \in Keys } \cup
    { cs[c].mLibraryBlob.id : c \in { x \in CacheIds : cs[x].alive } }

NewBlobId(store, cs) == Min(BlobIds \ BlobsInUse(store, cs))

\* FakePersistentCache::StoreData with operator[] in place of insert: a later
\* store replaces the entry.
FakeStoreData_Overwrites(store, cs, key, arg) ==
    IF store.mIsDisabled THEN store
    ELSE [store EXCEPT !.mCache[key] =
              [id |-> NewBlobId(store, cs), data |-> arg.data]]

\* FakePersistentCache::StoreData without the mIsDisabled return: a disabled
\* store keeps what it is given.
FakeStoreData_IgnoresDisabled(store, cs, key, arg) ==
    IF store.mCache[key] # Null THEN store
    ELSE [store EXCEPT !.mCache[key] =
              [id |-> NewBlobId(store, cs), data |-> arg.data]]

\* FakePersistentCache::StoreData: dropped when disabled; otherwise a new blob
\* holding a copy of the value is inserted unless the key is already there.
FakeStoreData(store, cs, key, arg) ==
    IF store.mIsDisabled THEN store
    ELSE IF store.mCache[key] # Null THEN store
    ELSE [store EXCEPT !.mCache[key] =
              [id |-> NewBlobId(store, cs), data |-> arg.data]]

\* FakePersistentCache::LoadData: the stored blob object itself, or null.
FakeLoadData(store, key) == store.mCache[key]

\* --------------------------------------------------------- PersistentCache
\* A context is threaded through one call: the store, the assertions the call
\* has violated, and the number of loads the store answered with a blob
\* (FakePersistentCache::mHitCount's increase).
Ctx(store) == [store |-> store, trip |-> {}, hits |-> 0]

\* PersistentCache::LoadData
LoadData(ctx, key) ==
    IF ~hasPlatformCache THEN [ctx |-> ctx, blob |-> Null]
    ELSE LET b == FakeLoadData(ctx.store, key)
         IN  [ctx |-> [ctx EXCEPT !.hits = @ + (IF b # Null THEN 1 ELSE 0)],
              blob |-> b]

\* PersistentCache::StoreData with the null check on mCache left out: the
\* write reaches the host's store whether or not the device has a platform cache.
StoreData_Unguarded(ctx, cs, key, arg) ==
    [ctx EXCEPT
        !.trip = @ \cup (IF arg.isNull THEN {"StoreData: value != nullptr"} ELSE {})
                   \cup (IF Len(arg.data) = 0 THEN {"StoreData: size > 0"} ELSE {}),
        !.store = FakeStoreData(ctx.store, cs, key, arg)]

\* PersistentCache::StoreData
StoreData(ctx, cs, key, arg) ==
    IF ~hasPlatformCache THEN ctx
    ELSE [ctx EXCEPT
            !.trip = @ \cup (IF arg.isNull THEN {"StoreData: value != nullptr"} ELSE {})
                       \cup (IF Len(arg.data) = 0 THEN {"StoreData: size > 0"} ELSE {}),
            !.store = FakeStoreData(ctx.store, cs, key, arg)]

\* The creation callback run by GetOrCreate: its doCache calls, in order.
RECURSIVE RunStores(_, _, _, _)
RunStores(ctx, cs, key, stores) ==
    IF stores = <<>> THEN ctx
    ELSE RunStores(StoreData(ctx, cs, key, Head(stores)), cs, key, Tail(stores))

\* GetOrCreate with the early return on a hit left out: the callback runs on
\* every call.
GetOrCreate_AlwaysCreates(ctx, cs, key, fn) ==
    LET first == LoadData(ctx, key)
        created == RunStores(first.ctx, cs, key, fn.stores)
        again == LoadData(created, key)
    IN  [ctx |-> again.ctx, blob |-> again.blob, error |-> fn.err,
         createCalls |-> 1, loads |-> 2]

\* GetOrCreate without the second load: after the callback it returns the
\* (null) blob of the first load.
GetOrCreate_NoReload(ctx, cs, key, fn) ==
    LET first == LoadData(ctx, key) IN
    IF first.blob # Null
    THEN [ctx |-> first.ctx, blob |-> first.blob, error |-> FALSE,
          createCalls |-> 0, loads |-> 1]
    ELSE [ctx |-> RunStores(first.ctx, cs, key, fn.stores), blob |-> Null,
          error |-> fn.err, createCalls |-> 1, loads |-> 1]

\* GetOrCreate that stores a placeholder of its own when the callback stored
\* nothing.
GetOrCreate_StoresPlaceholder(ctx, cs, key, fn) ==
    LET first == LoadData(ctx, key) IN
    IF first.blob # Null
    THEN [ctx |-> first.ctx, blob |-> first.blob, error |-> FALSE,
          createCalls |-> 0, loads |-> 1]
    ELSE LET created == RunStores(first.ctx, cs, key,
                            IF fn.stores = <<>>
                            THEN << [isNull |-> FALSE, data |-> <<>>] >>
                            ELSE fn.stores)
             again == LoadData(created, key)
         IN  [ctx |-> again.ctx, blob |-> IF fn.err THEN Null ELSE again.blob,
              error |-> fn.err, createCalls |-> 1, loads |-> 2]

\* GetOrCreate without the DAWN_TRY around createFn: the callback's error is
\* dropped and the key is loaded again.
GetOrCreate_SwallowsError(ctx, cs, key, fn) ==
    LET first == LoadData(ctx, key) IN
    IF first.blob # Null
    THEN [ctx |-> first.ctx, blob |-> first.blob, error |-> FALSE,
          createCalls |-> 0, loads |-> 1]
    ELSE LET created == RunStores(first.ctx, cs, key, fn.stores)
             again == LoadData(created, key)
         IN  [ctx |-> again.ctx, blob |-> again.blob, error |-> FALSE,
              createCalls |-> 1, loads |-> 2]

\* PersistentCache::GetOrCreate
GetOrCreate(ctx, cs, key, fn) ==
    LET first == LoadData(ctx, key) IN
    IF first.blob # Null
    THEN [ctx |-> first.ctx, blob |-> first.blob, error |-> FALSE,
          createCalls |-> 0, loads |-> 1]
    ELSE LET created == RunStores(first.ctx, cs, key, fn.stores) IN
         IF fn.err
         THEN [ctx |-> created, blob |-> Null, error |-> TRUE,
               createCalls |-> 1, loads |-> 1]
         ELSE LET again == LoadData(created, key)
              IN  [ctx |-> again.ctx, blob |-> again.blob, error |-> FALSE,
                   createCalls |-> 1, loads |-> 2]


\* ----------------------------------------------------------- PipelineCache
\* A PipelineCache object; also the content of a freed address.
\* mSharedPipelineCaches is TRUE when the back-reference is non-null.
NoCache ==
    [ alive |-> FALSE, mRefCount |-> 0, mLibraryBlob |-> Null,
      hasLibrary |-> FALSE, mLibrary |-> {},
      mSharedPipelineCaches |-> FALSE, mIsLibraryBlobDirty |-> FALSE ]

LiveCaches(cs) == { c \in CacheIds : cs[c].alive }

NewCacheId(cs) == Min(CacheIds \ LiveCaches(cs))

RECURSIVE SortedSeq(_)
SortedSeq(S) == IF S = {} THEN <<>> ELSE <<Min(S)>> \o SortedSeq(S \ {Min(S)})

\* ID3D12PipelineLibrary::Serialize: the names of the stored pipelines behind
\* the library header (GetSerializedSize() > 0 also for an empty library).
Serialize(lib) == <<LibraryMagic>> \o SortedSeq(lib)

\* ID3D12Device1::CreatePipelineLibrary(data, size): zero size starts an empty
\* library, a serialized library is loaded, anything else is refused.
CreatePipelineLibrary(data) ==
    IF Len(data) = 0 THEN [ok |-> TRUE, lib |-> {}]
    ELSE IF Head(data) = LibraryMagic
         THEN [ok |-> TRUE, lib |-> { data[i] : i \in 2 .. Len(data) }]
         ELSE [ok |-> FALSE, lib |-> {}]

\* ScopedCachedBlob::operator==
BlobEquals(a, b) == (a.id = 0) = (b.id = 0) /\ a.data = b.data

\* PipelineCache::HashFunc: the hash of the blob's address.
HashFunc(entry) == entry.mLibraryBlob.id

\* PipelineCache::EqualityFunc
EqualityFunc(a, b) == BlobEquals(a.mLibraryBlob, b.mLibraryBlob)

\* How the unordered_set lays out its buckets at the time of a call: whether
\* elements with different hashes share the key's bucket (same), and which
\* element of a bucket is met first (first).
Buckets == [same : BOOLEAN, first : CacheIds]

\* unordered_set::find: the first element in the key's bucket that the
\* equality functor accepts (the empty set stands for end()). Elements with
\* the key's hash are always in its bucket.
Find(reg, cs, key, b) ==
    LET m == { e \in reg : /\ HashFunc(cs[e]) = HashFunc(key) \/ b.same
                           /\ EqualityFunc(cs[e], key) }
    IN  IF b.first \in m THEN {b.first}
        ELSE IF m = {} THEN {}
        ELSE {CHOOSE e \in m : TRUE}

\* unordered_set::insert: nothing is inserted when find meets an equal element.
Insert(reg, cs, c, b) ==
    IF Find(reg, cs, cs[c], b) # {} THEN reg ELSE reg \cup {c}

\* SharedPipelineCaches::RemovePipelineCache
RemovePipelineCache(reg, cs, c, b) ==
    LET gone == Find(reg, cs, cs[c], b) IN
    [ reg |-> reg \ gone,
      erased |-> gone,
      refCount |-> cs[c].mRefCount,
      trip |-> (IF cs[c].mRefCount # 0
                  THEN {"RemovePipelineCache: refcount == 0"} ELSE {})
               \cup (IF Cardinality(gone) # 1
                  THEN {"RemovePipelineCache: removedCount == 1"} ELSE {}) ]

\* ~PipelineCache without the check of mSharedPipelineCaches: it always calls
\* RemovePipelineCache.
Destroy_AlwaysRemoves(reg, cs, c, b) ==
    LET rm == RemovePipelineCache(reg, cs, c, b) IN
    [ reg |-> rm.reg, cs |-> [cs EXCEPT ![c] = NoCache],
      removeCalled |-> TRUE, destroyed |-> c,
      erased |-> rm.erased, refCount |-> rm.refCount, trip |-> rm.trip ]

\* PipelineCache::~PipelineCache, run on the object c (reference count 0).
Destroy(reg, cs, c, b) ==
    LET rm == IF cs[c].mSharedPipelineCaches
              THEN RemovePipelineCache(reg, cs, c, b)
              ELSE [reg |-> reg, erased |-> {}, refCount |-> cs[c].mRefCount,
                    trip |-> {}]
    IN  [ reg |-> rm.reg, cs |-> [cs EXCEPT ![c] = NoCache],
          removeCalled |-> cs[c].mSharedPipelineCaches, destroyed |-> c,
          erased |-> rm.erased, refCount |-> rm.refCount, trip |-> rm.trip ]

\* A creation callback that does not call doCache.
NoOpCreateFn_StoresNothing == [stores |-> <<>>, err |-> FALSE]

\* The creation callback of SharedPipelineCaches::GetOrCreate: doCache(nullptr, 0).
NoOpCreateFn == [stores |-> << [isNull |-> TRUE, data |-> <<>>] >>, err |-> FALSE]


\* ------------------------------------------------------------------- Init
\* What the store holds under the adapter's key when the process starts:
\* nothing, a library serialized by an earlier run, or bytes that are no
\* library (written by another driver version, or damaged).
InitialSeeds ==
    { Null, [id |-> 1, data |-> Serialize({1})], [id |-> 1, data |-> <<1>>] }

Idle == [d \in Devices |-> "idle"]

\* ------------------------------------------------------ FingerprintRecorder
\* A size_t of 64 bits, as four limbs of 16 bits, the least significant first.
Word(n) == << n, 0, 0, 0 >>

RECURSIVE XorBits(_, _, _)
XorBits(a, b, n) ==
    IF n = 0 THEN 0
    ELSE ((a + b) % 2) + 2 * XorBits(a \div 2, b \div 2, n - 1)

\* a ^ b
WordXor(a, b) == [i \in 1 .. 4 |-> XorBits(a[i], b[i], 16)]

\* a + b, modulo 2^64
WordAdd(a, b) ==
    LET s1 == a[1] + b[1]
        s2 == a[2] + b[2] + (s1 \div 65536)
        s3 == a[3] + b[3] + (s2 \div 65536)
        s4 == a[4] + b[4] + (s3 \div 65536)
    IN  << s1 % 65536, s2 % 65536, s3 % 65536, s4 % 65536 >>

\* h << 6
ShiftLeft6(h) ==
    << (h[1] * 64) % 65536,
       ((h[2] * 64) % 65536) + (h[1] \div 1024),
       ((h[3] * 64) % 65536) + (h[2] \div 1024),
       ((h[4] * 64) % 65536) + (h[3] \div 1024) >>

\* h >> 2
ShiftRight2(h) ==
    << (h[1] \div 4) + ((h[2] % 4) * 16384),
       (h[2] \div 4) + ((h[3] % 4) * 16384),
       (h[3] \div 4) + ((h[4] % 4) * 16384),
       h[4] \div 4 >>

\* The offset 0x9e3779b97f4a7c16 of HashCombine on a 64-bit platform.
kHashOffset == << 31766, 32586, 31161, 40503 >>

\* Hash(value): std::hash of an integer, the value itself.
Hash(value) == value

\* HashCombine(&hash, value):
\*   hash ^= Hash(value) + offset + (hash << 6) + (hash >> 2)
HashCombine(hash, value) ==
    WordXor(hash,
            WordAdd(WordAdd(WordAdd(Hash(value), kHashOffset), ShiftLeft6(hash)),
                    ShiftRight2(hash)))

\* HashCombine(&hash, value, args...): the values in order.
RECURSIVE HashCombineAll(_, _)
HashCombineAll(hash, values) ==
    IF values = <<>> THEN hash
    ELSE HashCombineAll(HashCombine(hash, Head(values)), Tail(values))

\* The values recorded: 1, 0x37bfd602f9480a33 and 0x15c1c592e957f8c5.
RecordedValues ==
    { Word(1), << 2611, 63816, 54786, 14271 >>, << 63685, 59735, 50578, 5569 >> }

\* The recorders of two recording sessions.
Recorders == {1, 2}

\* A FingerprintRecorder after construction (mHash = 0), with no call made on
\* it yet: the values recorded and the keys GetKey has returned, in order.
Fresh == [mHash |-> Word(0), recorded |-> <<>>, keys |-> <<>>]
NoLocals == [d \in Devices |-> [blob |-> Null, cache |-> 0]]

Init ==
    /\ hasPlatformCache \in BOOLEAN
    /\ supportsPipelineCaching \in BOOLEAN
    /\ isDebug \in BOOLEAN
    /\ \E seed \in InitialSeeds :
          mPersistentCache =
              [ mCache |-> [k \in Keys |-> IF k = PipelineCacheKey THEN seed ELSE Null],
                mIsDisabled |-> FALSE ]
    /\ caches = [c \in CacheIds |-> NoCache]
    /\ mCache = {}
    /\ devCache = [d \in Devices |-> 0]
    /\ pc = Idle
    /\ tmp = NoLocals
    /\ recorder = [r \in Recorders |-> Fresh]
    /\ flushed = {}
    /\ last = [op |-> "none"]

\* --------------------------------------------------- calls, one step each
\* A client of the device's PersistentCache (a shader compile) runs the
\* load-or-create transaction on a shader key with an arbitrary callback.
ClientGetOrCreate(d, fn) ==
    LET r == GetOrCreate(Ctx(mPersistentCache), caches, ShaderKey, fn) IN
    /\ mPersistentCache' = r.ctx.store
    /\ last' = [ op |-> "GetOrCreate", dev |-> d, key |-> ShaderKey, fn |-> fn,
                 storeBefore |-> mPersistentCache,
                 blob |-> r.blob, error |-> r.error,
                 createCalls |-> r.createCalls, loads |-> r.loads,
                 hits |-> r.ctx.hits, trip |-> r.ctx.trip ]
    /\ UNCHANGED << config, recorder, flushed, caches, mCache, devCache, pc, tmp >>

\* A direct PersistentCache::LoadData(key).
ClientLoadData(d, key) ==
    LET r == LoadData(Ctx(mPersistentCache), key) IN
    /\ last' = [ op |-> "LoadData", dev |-> d, key |-> key, blob |-> r.blob,
                 storeBefore |-> mPersistentCache, hits |-> r.ctx.hits, trip |-> r.ctx.trip ]
    /\ UNCHANGED << config, recorder, flushed, mPersistentCache, caches, mCache, devCache, pc, tmp >>

\* The bytecode a shader compile produces.
ShaderBytecode == [isNull |-> FALSE, data |-> <<2>>]

\* PersistentCache::DoCache as ShaderModule::Compile uses it: it stores the
\* bytes and reports whether the store holds the key afterwards.
DoCache(ctx, cs, key, arg) ==
    LET stored == StoreData(ctx, cs, key, arg) IN
    [ctx |-> stored,
     ok |-> hasPlatformCache /\ FakeLoadData(stored.store, key) # Null]

\* PersistentCache::LoadFromCacheOrCreate with the callback of
\* ShaderModule::Compile: a hit returns the cached bytecode and leaves
\* doCacheShaders alone; on a miss the callback compiles and, when
\* doCacheShaders is set, assigns it the result of doCache.
LoadFromCacheOrCreate(ctx, cs, key, doCacheShaders, compileFails) ==
    LET first == LoadData(ctx, key) IN
    IF first.blob # Null
    THEN [ctx |-> first.ctx, blob |-> first.blob, error |-> FALSE,
          createCalls |-> 0, doCacheShaders |-> doCacheShaders, stored |-> FALSE]
    ELSE IF compileFails
    THEN [ctx |-> first.ctx, blob |-> Null, error |-> TRUE,
          createCalls |-> 1, doCacheShaders |-> doCacheShaders, stored |-> FALSE]
    ELSE LET done == IF doCacheShaders
                     THEN DoCache(first.ctx, cs, key, ShaderBytecode)
                     ELSE [ctx |-> first.ctx, ok |-> FALSE]
             again == LoadData(done.ctx, key)
         IN  [ctx |-> again.ctx, blob |-> again.blob, error |-> FALSE,
              createCalls |-> 1, doCacheShaders |-> done.ok, stored |-> done.ok]

\* The value ShaderModule::Compile writes to *useCachedPipeline.
UseCachedPipeline(doCacheShaders, debugFlag) == doCacheShaders \/ ~debugFlag

\* ShaderModule::Compile(entryPointName, stage) of a module, on a device whose
\* DisableD3D12ShaderCaching toggle
\* is toggleDisable, with D3DCOMPILE_DEBUG in the compile flags iff debugFlag
\* (the pipelines set it in a _DEBUG build only).
ShaderCompile(d, module, entryPointName, stage, toggleDisable, debugFlag, compileFails) ==
    /\ debugFlag => isDebug
    /\ LET shaderCacheKey == CreateShaderCacheKey(module, entryPointName, stage)
           r == LoadFromCacheOrCreate(Ctx(mPersistentCache), caches, shaderCacheKey,
                                      ~toggleDisable, compileFails)
       IN
       /\ mPersistentCache' = r.ctx.store
       /\ last' = [ op |-> "ShaderCompile", dev |-> d, key |-> shaderCacheKey,
                    module |-> module, entryPointName |-> entryPointName,
                    stage |-> stage,
                    toggleDisable |-> toggleDisable, debugFlag |-> debugFlag,
                    compileFails |-> compileFails,
                    storeBefore |-> mPersistentCache,
                    blob |-> r.blob, error |-> r.error,
                    createCalls |-> r.createCalls, stored |-> r.stored,
                    useCachedPipeline |->
                        IF r.error THEN TRUE
                        ELSE UseCachedPipeline(r.doCacheShaders, debugFlag),
                    hits |-> r.ctx.hits, trip |-> r.ctx.trip ]
    /\ UNCHANGED << config, recorder, flushed, caches, mCache, devCache, pc, tmp >>

\* RefCounted::Release: the count drops by one.
ReleaseRef(cs, c) == [cs EXCEPT ![c].mRefCount = @ - 1]

\* PipelineCache blueprint(pipelineCacheData): the lookup-only entry.
Blueprint(blob) == [NoCache EXCEPT !.mLibraryBlob = blob]

\* PipelineCache::Create: the private constructor, then Initialize(). The new
\* object is at address c, holds one reference and points back to the registry.
Create(cs, c, blob) ==
    LET lib == CreatePipelineLibrary(blob.data) IN
    [ ok |-> lib.ok,
      cs |-> [cs EXCEPT ![c] =
                [ alive |-> TRUE, mRefCount |-> 1, mLibraryBlob |-> blob,
                  hasLibrary |-> lib.ok, mLibrary |-> lib.lib,
                  mSharedPipelineCaches |-> TRUE,
                  mIsLibraryBlobDirty |-> FALSE ]] ]

\* DisconnectFromCache that leaves the back-reference in place.
DisconnectFromCache_Forgets(cs, c) == cs

\* PipelineCache::DisconnectFromCache
DisconnectFromCache(cs, c) == [cs EXCEPT ![c].mSharedPipelineCaches = FALSE]

\* What SharedPipelineCaches::GetOrCreate reports: the error or the returned
\* cache, whether it came from the registry (and the reference count it had
\* when it was found), the seed blob that was looked up, and what the
\* destructor of a cache dropped on the way did.
Returned(error, c, found, foundRefCount, seed, createCalls, hits, trip, dead) ==
    [ op |-> "SharedGetOrCreate", error |-> error, cache |-> c, found |-> found,
      foundRefCount |-> foundRefCount, seed |-> seed,
      createCalls |-> createCalls, hits |-> hits, trip |-> trip \cup dead.trip,
      removeCalled |-> dead.removeCalled, erased |-> dead.erased,
      refCount |-> dead.refCount, destroyed |-> dead.destroyed ]

NothingDestroyed ==
    [removeCalled |-> FALSE, erased |-> {}, refCount |-> 0, trip |-> {},
     destroyed |-> 0]

\* SharedPipelineCaches::GetOrCreate, called when device d is created; the
\* device keeps the returned Ref<PipelineCache>.
SharedGetOrCreate(d, b) ==
    /\ devCache[d] = 0
    /\ IF ~supportsPipelineCaching
       THEN \* passthrough: new PipelineCache()
            LET c == NewCacheId(caches) IN
            /\ caches' = [caches EXCEPT ![c] =
                              [NoCache EXCEPT !.alive = TRUE, !.mRefCount = 1]]
            /\ devCache' = [devCache EXCEPT ![d] = c]
            /\ last' = Returned(FALSE, c, FALSE, 0, Null, 0, 0, {}, NothingDestroyed)
            /\ UNCHANGED << mPersistentCache, mCache >>
       ELSE LET r == GetOrCreate(Ctx(mPersistentCache), caches, PipelineCacheKey,
                                 NoOpCreateFn)
                iter == Find(mCache, caches, Blueprint(r.blob), b)
            IN
            IF iter # {}
            THEN \* an existing pipeline cache of this adapter
                 LET c == CHOOSE e \in iter : TRUE IN
                 /\ caches' = [caches EXCEPT ![c].mRefCount = @ + 1]
                 /\ devCache' = [devCache EXCEPT ![d] = c]
                 /\ mPersistentCache' = r.ctx.store
                 /\ last' = Returned(FALSE, c, TRUE, caches[c].mRefCount, r.blob,
                                     r.createCalls, r.ctx.hits, r.ctx.trip,
                                     NothingDestroyed)
                 /\ UNCHANGED mCache
            ELSE LET re == IF BlobEquals(r.blob, Null)
                           THEN LoadData(r.ctx, PipelineCacheKey)
                           ELSE [ctx |-> r.ctx, blob |-> r.blob]
                     c == NewCacheId(caches)
                     made == Create(caches, c, re.blob)
                 IN
                 /\ mPersistentCache' = re.ctx.store
                 /\ IF ~made.ok
                    THEN \* Initialize() failed: the Ref in Create is dropped
                         LET dead == Destroy(mCache, ReleaseRef(made.cs, c), c, b) IN
                         /\ caches' = dead.cs
                         /\ mCache' = dead.reg
                         /\ last' = Returned(TRUE, 0, FALSE, 0, re.blob,
                                             r.createCalls, re.ctx.hits,
                                             re.ctx.trip, dead)
                         /\ UNCHANGED devCache
                    ELSE /\ IF re.blob.id # 0
                            THEN /\ mCache' = Insert(mCache, made.cs, c, b)
                                 /\ caches' = made.cs
                            ELSE /\ mCache' = mCache
                                 /\ caches' = DisconnectFromCache(made.cs, c)
                         /\ devCache' = [devCache EXCEPT ![d] = c]
                         /\ last' = Returned(FALSE, c, FALSE, 0, re.blob,
                                             r.createCalls, re.ctx.hits,
                                             re.ctx.trip, NothingDestroyed)
    /\ UNCHANGED << config, recorder, flushed, pc, tmp >>

\* The report of a finished release or destruction.
Released(c, deleted, dead) ==
    [ op |-> "Release", cache |-> c, deleted |-> deleted,
      removeCalled |-> dead.removeCalled, erased |-> dead.erased,
      refCount |-> dead.refCount, destroyed |-> dead.destroyed,
      trip |-> dead.trip ]

\* The Ref<PipelineCache> of device d is dropped (the device is destroyed):
\* at reference count zero the object is deleted.
ReleasePipelineCache(d, b) ==
    /\ devCache[d] # 0
    /\ LET c == devCache[d]
           dropped == ReleaseRef(caches, c)
       IN
       /\ devCache' = [devCache EXCEPT ![d] = 0]
       /\ IF dropped[c].mRefCount = 0
          THEN LET dead == Destroy(mCache, dropped, c, b) IN
               /\ caches' = dead.cs
               /\ mCache' = dead.reg
               /\ last' = Released(c, TRUE, dead)
          ELSE /\ caches' = dropped
               /\ mCache' = mCache
               /\ last' = Released(c, FALSE,
                              [NothingDestroyed EXCEPT !.refCount = dropped[c].mRefCount])
    /\ UNCHANGED << config, recorder, flushed, mPersistentCache, pc, tmp >>

\* SharedPipelineCaches::ResetForTesting
ResetForTesting ==
    /\ mCache # {}
    /\ caches' = [c \in CacheIds |->
                    IF c \in mCache
                    THEN [caches[c] EXCEPT !.mSharedPipelineCaches = FALSE]
                    ELSE caches[c]]
    /\ mCache' = {}
    /\ last' = [ op |-> "ResetForTesting",
                 trip |-> IF \E c \in mCache : ~caches[c].mSharedPipelineCaches
                          THEN {"DisconnectFromCache: mSharedPipelineCaches != nullptr"}
                          ELSE {} ]
    /\ UNCHANGED << config, recorder, flushed, mPersistentCache, devCache, pc, tmp >>

\* The result codes of the pipeline library and of the device.
S_OK == "S_OK"
E_INVALIDARG == "E_INVALIDARG"
E_FAIL == "E_FAIL"

\* CheckHRESULT: TRUE when the result code is turned into an error.
CheckHRESULT(result) == result # S_OK

\* CheckLoadPipelineHRESULT with E_INVALIDARG treated like every other failure.
CheckLoadPipelineHRESULT_Strict(result) == CheckHRESULT(result)

\* CheckLoadPipelineHRESULT: E_INVALIDARG (no such pipeline) is no error.
CheckLoadPipelineHRESULT(result) ==
    IF result = E_INVALIDARG THEN FALSE ELSE CheckHRESULT(result)

\* CheckStorePipelineHRESULT: E_INVALIDARG (name already stored) is no error
\* in a _DEBUG build only.
CheckStorePipelineHRESULT(result) ==
    IF isDebug /\ result = E_INVALIDARG THEN FALSE ELSE CheckHRESULT(result)

\* ID3D12PipelineLibrary::Load*Pipeline(name, desc): E_INVALIDARG when the
\* name is not in the library or the stored pipeline does not match desc
\* (recompiled: desc holds shader bytecode regenerated by a debug compile).
LibraryLoadPipeline(lib, descHash, recompiled, loadFails) ==
    IF loadFails THEN E_FAIL
    ELSE IF descHash \in lib /\ ~recompiled THEN S_OK
    ELSE E_INVALIDARG

\* ID3D12PipelineLibrary::StorePipeline(name, pso): E_INVALIDARG when the name
\* is already in the library.
LibraryStorePipeline(lib, descHash) ==
    IF descHash \in lib THEN E_INVALIDARG ELSE S_OK

\* The load of PipelineCache::GetOrCreate if it looked the adapter's entry up
\* in the store first: no hit without the persisted entry.
PsoLoad_ReadsStore(pcache, descHash, recompiled, loadFails) ==
    IF ~pcache.hasLibrary
    THEN [queried |-> FALSE, result |-> "none", error |-> FALSE, hit |-> FALSE]
    ELSE LET hr == IF mPersistentCache.mCache[PipelineCacheKey] = Null
                   THEN E_INVALIDARG
                   ELSE LibraryLoadPipeline(pcache.mLibrary, descHash, recompiled, loadFails)
         IN  [ queried |-> TRUE,
               result |-> hr,
               error |-> CheckLoadPipelineHRESULT(hr),
               hit |-> hr = S_OK ]

\* PipelineCache::GetOrCreate, the load: whether the library was asked, whether
\* an error is returned, and whether the pipeline was found (mHitCountForTesting++).
PsoLoad(pcache, descHash, recompiled, loadFails) ==
    IF ~pcache.hasLibrary
    THEN [queried |-> FALSE, result |-> "none", error |-> FALSE, hit |-> FALSE]
    ELSE LET hr == LibraryLoadPipeline(pcache.mLibrary, descHash, recompiled, loadFails)
         IN  [ queried |-> TRUE,
               result |-> hr,
               error |-> CheckLoadPipelineHRESULT(hr),
               hit |-> hr = S_OK ]

\* PipelineCache::GetOrCreate after a miss: CreatePipeline, then StorePipeline
\* and the dirty flag.
PsoCreateAndStore(pcache, descHash, createFails) ==
    IF createFails
    THEN [pcache |-> pcache, error |-> TRUE, created |-> FALSE, storeResult |-> "none"]
    ELSE IF ~pcache.hasLibrary
    THEN [pcache |-> pcache, error |-> FALSE, created |-> TRUE, storeResult |-> "none"]
    ELSE LET hr == LibraryStorePipeline(pcache.mLibrary, descHash) IN
         IF CheckStorePipelineHRESULT(hr)
         THEN [pcache |-> pcache, error |-> TRUE, created |-> TRUE, storeResult |-> hr]
         ELSE [ pcache |-> [pcache EXCEPT !.mLibrary = @ \cup {descHash},
                                          !.mIsLibraryBlobDirty = TRUE],
                error |-> FALSE, created |-> TRUE, storeResult |-> hr ]

\* What PipelineCache::GetOrCreate reports.
PsoReturned(c, descHash, allowCache, load, made) ==
    [ op |-> "PipelineGetOrCreate", cache |-> c, descHash |-> descHash,
      allowCache |-> allowCache, queried |-> load.queried,
      loadResult |-> load.result, loadError |-> load.error, error |-> load.error \/ made.error,
      hit |-> load.hit, created |-> made.created,
      storeResult |-> made.storeResult, trip |-> {} ]

NothingMade == [error |-> FALSE, created |-> FALSE, storeResult |-> "none"]

\* A pipeline is created on device d: PipelineCache::GetOrCreate(desc, descHash)
\* on the device's pipeline cache. recompiled: the shader compile regenerated
\* debug bytecode, so the caller's permission to use the pipeline cache is
\* FALSE (only in a _DEBUG build). loadFails / createFails: Load*Pipeline fails
\* with a code other than E_INVALIDARG / Create*PipelineState fails.
PipelineGetOrCreate(d, descHash, recompiled, loadFails, createFails) ==
    /\ devCache[d] # 0
    /\ recompiled => isDebug
    /\ LET c == devCache[d]
           load == PsoLoad(caches[c], descHash, recompiled, loadFails)
       IN
       IF load.error \/ load.hit
       THEN /\ last' = PsoReturned(c, descHash, ~recompiled, load, NothingMade)
            /\ UNCHANGED caches
       ELSE LET made == PsoCreateAndStore(caches[c], descHash, createFails) IN
            /\ last' = PsoReturned(c, descHash, ~recompiled, load, made)
            /\ caches' = [caches EXCEPT ![c] = made.pcache]
    /\ UNCHANGED << config, recorder, flushed, mPersistentCache, mCache, devCache, pc, tmp >>

\* ComputePipeline::Initialize(descriptor, descriptorHash) on device d: the
\* compute shader is compiled (with D3DCOMPILE_DEBUG in a _DEBUG build), its
\* bytecode goes into the pipeline state description, and the pipeline state
\* comes from PipelineCache::GetOrCreate. Bytecode regenerated by a debug
\* compile never equals the bytecode of an earlier compile.
ComputePipelineInitialize(d, descHash, toggleDisable, compileFails, loadFails, createFails) ==
    /\ devCache[d] # 0
    /\ LET c == devCache[d]
           shaderCacheKey == CreateShaderCacheKey(
                                 [mWgsl |-> << "a" >>, mOriginalSpirv |-> <<>>],
                                 << "m" >>, ComputeStage)
           compiled == LoadFromCacheOrCreate(Ctx(mPersistentCache), caches,
                                             shaderCacheKey, ~toggleDisable, compileFails)
           regenerated == isDebug /\ compiled.createCalls = 1
           load == PsoLoad(caches[c], descHash, regenerated, loadFails)
           report(ld, made) ==
               [PsoReturned(c, descHash, ~regenerated, ld, made)
                   EXCEPT !.op = "ComputePipelineInitialize",
                          !.error = compiled.error \/ ld.error \/ made.error,
                          !.trip = compiled.ctx.trip]
               @@ [regenerated |-> regenerated, compileError |-> compiled.error]
       IN
       /\ mPersistentCache' = compiled.ctx.store
       /\ IF compiled.error
          THEN /\ last' = report([queried |-> FALSE, result |-> "none",
                                  error |-> FALSE, hit |-> FALSE], NothingMade)
               /\ UNCHANGED caches
          ELSE IF load.error \/ load.hit
          THEN /\ last' = report(load, NothingMade)
               /\ UNCHANGED caches
          ELSE LET made == PsoCreateAndStore(caches[c], descHash, createFails) IN
               /\ last' = report(load, made)
               /\ caches' = [caches EXCEPT ![c] = made.pcache]
    /\ UNCHANGED << config, recorder, flushed, mCache, devCache, pc, tmp >>

\* SharedPipelineCaches::StorePipelineCacheData
SharedStorePipelineCacheData(ctx, cs, data) ==
    StoreData(ctx, cs, PipelineCacheKey, [isNull |-> FALSE, data |-> data])

\* PipelineCache::StorePipelineCacheData with the dirty check left out.
ShouldFlush_IgnoresDirty(pcache) ==
    pcache.mSharedPipelineCaches /\ ~isDebug

\* PipelineCache::StorePipelineCacheData, the early returns: it goes on only
\* for a connected cache whose library is dirty, and never in a _DEBUG build.
ShouldFlush(pcache) ==
    /\ pcache.mSharedPipelineCaches
    /\ pcache.mIsLibraryBlobDirty
    /\ ~isDebug

\* PipelineCache::StorePipelineCacheData(persistentCache) on the pipeline cache
\* of device d. serializeFails: ID3D12PipelineLibrary::Serialize fails.
StorePipelineCacheData(d, serializeFails) ==
    /\ devCache[d] # 0
    /\ LET c == devCache[d]
           pcache == caches[c]
           report == [ op |-> "StorePipelineCacheData", cache |-> c ]
       IN
       IF ~ShouldFlush(pcache)
       THEN /\ last' = report @@ [stored |-> FALSE, data |-> <<>>, trip |-> {}]
            /\ UNCHANGED << caches, mPersistentCache >>
       ELSE IF ~pcache.hasLibrary
       THEN /\ last' = report @@ [stored |-> FALSE, data |-> <<>>,
                                  trip |-> {"StorePipelineCacheData: mLibrary != nullptr"}]
            /\ UNCHANGED << caches, mPersistentCache >>
       ELSE IF serializeFails
       THEN /\ last' = report @@ [stored |-> FALSE, data |-> <<>>, trip |-> {}]
            /\ UNCHANGED << caches, mPersistentCache >>
       ELSE LET ctx == SharedStorePipelineCacheData(
                           Ctx(mPersistentCache), caches, Serialize(pcache.mLibrary))
            IN
            /\ mPersistentCache' = ctx.store
            /\ caches' = [caches EXCEPT ![c].mIsLibraryBlobDirty = FALSE]
            /\ last' = report @@ [stored |-> TRUE,
                                  data |-> Serialize(pcache.mLibrary),
                                  trip |-> ctx.trip]
    /\ flushed' = IF /\ hasPlatformCache /\ ~mPersistentCache.mIsDisabled
                     /\ caches[devCache[d]].mSharedPipelineCaches
                  THEN flushed \cup caches[devCache[d]].mLibrary
                  ELSE flushed
    /\ UNCHANGED << config, recorder, mCache, devCache, pc, tmp >>

\* The host empties the store (mPersistentCache.mCache.clear()).
NukeCache ==
    /\ \E k \in Keys : mPersistentCache.mCache[k] # Null
    /\ mPersistentCache' = [mPersistentCache EXCEPT !.mCache = [k \in Keys |-> Null]]
    /\ last' = [op |-> "NukeCache", trip |-> {}]
    /\ flushed' = {}
    /\ UNCHANGED << config, recorder, caches, mCache, devCache, pc, tmp >>

\* The host stops persisting (mPersistentCache.mIsDisabled = true).
DisableCache ==
    /\ ~mPersistentCache.mIsDisabled
    /\ mPersistentCache' = [mPersistentCache EXCEPT !.mIsDisabled = TRUE]
    /\ last' = [op |-> "DisableCache", trip |-> {}]
    /\ UNCHANGED << config, recorder, flushed, caches, mCache, devCache, pc, tmp >>

\* The devices of one adapter: creation, pipeline creation, flush, destruction.
Next ==
    \/ \E d \in Devices, b \in Buckets : SharedGetOrCreate(d, b)
    \/ \E d \in Devices, b \in Buckets : ReleasePipelineCache(d, b)
    \/ ResetForTesting
    \/ \E d \in Devices, h \in DescHashes,
          rc \in BOOLEAN, lf \in BOOLEAN, cf \in BOOLEAN :
          PipelineGetOrCreate(d, h, rc, lf, cf)
    \/ \E d \in Devices, sf \in BOOLEAN : StorePipelineCacheData(d, sf)
    \/ NukeCache
    \/ DisableCache

Spec == Init /\ [][Next]_vars

\* The clients of the PersistentCache of each device.
NextPC ==
    \/ \E d \in Devices, fn \in CreateFns : ClientGetOrCreate(d, fn)
    \/ \E d \in Devices, k \in Keys : ClientLoadData(d, k)
    \/ \E d \in Devices, td \in BOOLEAN, dbg \in BOOLEAN, cf \in BOOLEAN :
          ShaderCompile(d, [mWgsl |-> << "a" >>, mOriginalSpirv |-> <<>>], << "m" >>,
                        ComputeStage, td, dbg, cf)
    \/ NukeCache
    \/ DisableCache

SpecPC == Init /\ [][NextPC]_vars

\* One device compiling the entry points of several modules, with a host that
\* may stop persisting.
NextShader ==
    \/ \E m \in CompiledModules, e \in CompiledEntryPoints,
          td \in BOOLEAN, cf \in BOOLEAN :
          ShaderCompile(1, m, e, ComputeStage, td, FALSE, cf)
    \/ DisableCache

SpecShader == Init /\ [][NextShader]_vars

\* The devices of one adapter with a host that leaves the store's entries
\* alone (it may stop persisting).
NextDev ==
    \/ \E d \in Devices, b \in Buckets : SharedGetOrCreate(d, b)
    \/ \E d \in Devices, b \in Buckets : ReleasePipelineCache(d, b)
    \/ \E d \in Devices, h \in DescHashes,
          rc \in BOOLEAN, lf \in BOOLEAN, cf \in BOOLEAN :
          PipelineGetOrCreate(d, h, rc, lf, cf)
    \/ \E d \in Devices, sf \in BOOLEAN : StorePipelineCacheData(d, sf)
    \/ DisableCache

SpecDev == Init /\ [][NextDev]_vars

\* The devices of one adapter baking several pipelines and flushing, with a
\* host that may empty the store; every load and creation succeeds.
NextFlush ==
    \/ \E d \in Devices, b \in Buckets : SharedGetOrCreate(d, b)
    \/ \E d \in Devices, b \in Buckets : ReleasePipelineCache(d, b)
    \/ \E d \in Devices, h \in FlushedHashes :
          PipelineGetOrCreate(d, h, FALSE, FALSE, FALSE)
    \/ \E d \in Devices, sf \in BOOLEAN : StorePipelineCacheData(d, sf)
    \/ NukeCache

\* A release build on a driver with pipeline caching and a host with a store:
\* the configuration in which a flush reaches the store.
InitFlush ==
    /\ Init
    /\ hasPlatformCache
    /\ supportsPipelineCaching
    /\ ~isDebug

SpecFlush == InitFlush /\ [][NextFlush]_vars

\* One device and a host that empties the store or stops persisting while the
\* device is in use.
NextNuke ==
    \/ \E b \in Buckets : SharedGetOrCreate(1, b)
    \/ \E b \in Buckets : ReleasePipelineCache(1, b)
    \/ \E h \in DescHashes, rc \in BOOLEAN, lf \in BOOLEAN, cf \in BOOLEAN :
          PipelineGetOrCreate(1, h, rc, lf, cf)
    \/ \E h \in DescHashes, td \in BOOLEAN, scf \in BOOLEAN,
          lf \in BOOLEAN, cf \in BOOLEAN :
          ComputePipelineInitialize(1, h, td, scf, lf, cf)
    \/ \E sf \in BOOLEAN : StorePipelineCacheData(1, sf)
    \/ NukeCache
    \/ DisableCache

SpecNuke == Init /\ [][NextNuke]_vars

\* ------------------------------------- calls, one registry access per step
\* SharedPipelineCaches::GetOrCreate up to the registry lookup: the passthrough
\* return, or the load of the seed blob through PersistentCache::GetOrCreate.
MT_Begin(d) ==
    /\ pc[d] = "idle"
    /\ devCache[d] = 0
    /\ IF ~supportsPipelineCaching
       THEN LET c == NewCacheId(caches) IN
            /\ caches' = [caches EXCEPT ![c] =
                              [NoCache EXCEPT !.alive = TRUE, !.mRefCount = 1]]
            /\ devCache' = [devCache EXCEPT ![d] = c]
            /\ last' = Returned(FALSE, c, FALSE, 0, Null, 0, 0, {}, NothingDestroyed)
            /\ UNCHANGED << mPersistentCache, pc, tmp >>
       ELSE LET r == GetOrCreate(Ctx(mPersistentCache), caches, PipelineCacheKey,
                                 NoOpCreateFn)
            IN
            /\ mPersistentCache' = r.ctx.store
            /\ tmp' = [tmp EXCEPT ![d] = [blob |-> r.blob, cache |-> 0]]
            /\ pc' = [pc EXCEPT ![d] = "find"]
            /\ UNCHANGED << caches, devCache, last >>
    /\ UNCHANGED << config, recorder, flushed, mCache >>

\* The thread enters mCache.find(&blueprint).
MT_FindBegin(d) ==
    /\ pc[d] = "find"
    /\ pc' = [pc EXCEPT ![d] = "inFind"]
    /\ UNCHANGED << config, recorder, flushed, mPersistentCache, caches, mCache, devCache, tmp, last >>

\* mCache.find returns: a found entry is returned as a new Ref.
MT_FindEnd(d, b) ==
    /\ pc[d] = "inFind"
    /\ LET iter == Find(mCache, caches, Blueprint(tmp[d].blob), b) IN
       IF iter # {}
       THEN LET c == CHOOSE e \in iter : TRUE IN
            /\ caches' = [caches EXCEPT ![c].mRefCount = @ + 1]
            /\ devCache' = [devCache EXCEPT ![d] = c]
            /\ last' = Returned(FALSE, c, TRUE, caches[c].mRefCount, tmp[d].blob,
                                0, 0, {}, NothingDestroyed)
            /\ pc' = [pc EXCEPT ![d] = "idle"]
            /\ tmp' = [tmp EXCEPT ![d] = [blob |-> Null, cache |-> 0]]
       ELSE /\ pc' = [pc EXCEPT ![d] = "create"]
            /\ UNCHANGED << caches, devCache, last, tmp >>
    /\ UNCHANGED << config, recorder, flushed, mPersistentCache, mCache >>

\* The reload of the seed blob and PipelineCache::Create; a cache that cannot
\* be persisted is disconnected and returned without an insert.
MT_Create(d) ==
    /\ pc[d] = "create"
    /\ LET re == IF BlobEquals(tmp[d].blob, Null)
                 THEN LoadData(Ctx(mPersistentCache), PipelineCacheKey)
                 ELSE [ctx |-> Ctx(mPersistentCache), blob |-> tmp[d].blob]
           c == NewCacheId(caches)
           made == Create(caches, c, re.blob)
       IN
       IF ~made.ok
       THEN /\ caches' = ReleaseRef(made.cs, c)
            /\ pc' = [pc EXCEPT ![d] = "destroy"]
            /\ tmp' = [tmp EXCEPT ![d] = [blob |-> Null, cache |-> c]]
            /\ UNCHANGED << devCache, last >>
       ELSE IF re.blob.id # 0
       THEN /\ caches' = made.cs
            /\ pc' = [pc EXCEPT ![d] = "insert"]
            /\ tmp' = [tmp EXCEPT ![d] = [blob |-> re.blob, cache |-> c]]
            /\ UNCHANGED << devCache, last >>
       ELSE /\ caches' = DisconnectFromCache(made.cs, c)
            /\ devCache' = [devCache EXCEPT ![d] = c]
            /\ last' = Returned(FALSE, c, FALSE, 0, re.blob, 0, 0, {},
                                NothingDestroyed)
            /\ pc' = [pc EXCEPT ![d] = "idle"]
            /\ tmp' = [tmp EXCEPT ![d] = [blob |-> Null, cache |-> 0]]
    /\ UNCHANGED << config, recorder, flushed, mPersistentCache, mCache >>

\* The thread enters mCache.insert(pipelineCache.Get()).
MT_InsertBegin(d) ==
    /\ pc[d] = "insert"
    /\ pc' = [pc EXCEPT ![d] = "inInsert"]
    /\ UNCHANGED << config, recorder, flushed, mPersistentCache, caches, mCache, devCache, tmp, last >>

\* mCache.insert returns, and GetOrCreate returns the new cache.
MT_InsertEnd(d, b) ==
    /\ pc[d] = "inInsert"
    /\ LET c == tmp[d].cache IN
       /\ mCache' = Insert(mCache, caches, c, b)
       /\ devCache' = [devCache EXCEPT ![d] = c]
       /\ last' = Returned(FALSE, c, FALSE, 0, tmp[d].blob, 0, 0, {},
                           NothingDestroyed)
    /\ pc' = [pc EXCEPT ![d] = "idle"]
    /\ tmp' = [tmp EXCEPT ![d] = [blob |-> Null, cache |-> 0]]
    /\ UNCHANGED << config, recorder, flushed, mPersistentCache, caches >>

\* The device drops its Ref: RefCounted::Release decrements the count, and the
\* thread that brought it to zero goes on to delete the object.
MT_Release(d) ==
    /\ pc[d] = "idle"
    /\ devCache[d] # 0
    /\ caches[devCache[d]].alive
    /\ LET c == devCache[d]
           dropped == ReleaseRef(caches, c)
       IN
       /\ caches' = dropped
       /\ devCache' = [devCache EXCEPT ![d] = 0]
       /\ IF dropped[c].mRefCount = 0
          THEN /\ pc' = [pc EXCEPT ![d] = "destroy"]
               /\ tmp' = [tmp EXCEPT ![d] = [blob |-> Null, cache |-> c]]
               /\ UNCHANGED last
          ELSE /\ last' = Released(c, FALSE,
                              [NothingDestroyed EXCEPT !.refCount = dropped[c].mRefCount])
               /\ UNCHANGED << pc, tmp >>
    /\ UNCHANGED << config, recorder, flushed, mPersistentCache, mCache >>

\* PipelineCache::~PipelineCache: a connected cache enters
\* RemovePipelineCache (mCache.erase), any other is freed at once.
MT_DestroyBegin(d) ==
    /\ pc[d] = "destroy"
    /\ LET c == tmp[d].cache IN
       IF caches[c].alive /\ caches[c].mSharedPipelineCaches
       THEN /\ pc' = [pc EXCEPT ![d] = "inErase"]
            /\ UNCHANGED << caches, tmp, last >>
       ELSE /\ caches' = [caches EXCEPT ![c] = NoCache]
            /\ last' = Released(c, TRUE, [NothingDestroyed EXCEPT !.destroyed = c])
            /\ pc' = [pc EXCEPT ![d] = "idle"]
            /\ tmp' = [tmp EXCEPT ![d] = [blob |-> Null, cache |-> 0]]
    /\ UNCHANGED << config, recorder, flushed, mPersistentCache, mCache, devCache >>

\* mCache.erase returns, RemovePipelineCache checks its count, and the object
\* is freed.
MT_EraseEnd(d, b) ==
    /\ pc[d] = "inErase"
    /\ LET c == tmp[d].cache
           dead == Destroy(mCache, caches, c, b)
       IN
       /\ caches' = dead.cs
       /\ mCache' = dead.reg
       /\ last' = Released(c, TRUE, dead)
    /\ pc' = [pc EXCEPT ![d] = "idle"]
    /\ tmp' = [tmp EXCEPT ![d] = [blob |-> Null, cache |-> 0]]
    /\ UNCHANGED << config, recorder, flushed, mPersistentCache, devCache >>

\* The devices of one adapter on independent threads.
NextMT ==
    \/ \E d \in Devices : MT_Begin(d)
    \/ \E d \in Devices : MT_FindBegin(d)
    \/ \E d \in Devices, b \in Buckets : MT_FindEnd(d, b)
    \/ \E d \in Devices : MT_Create(d)
    \/ \E d \in Devices : MT_InsertBegin(d)
    \/ \E d \in Devices, b \in Buckets : MT_InsertEnd(d, b)
    \/ \E d \in Devices : MT_Release(d)
    \/ \E d \in Devices : MT_DestroyBegin(d)
    \/ \E d \in Devices, b \in Buckets : MT_EraseEnd(d, b)

SpecMT == Init /\ [][NextMT]_vars

\* PipelineCache::GetOrCreate on the thread of device d, up to the result of
\* LoadPipeline: a hit or an error returns, a miss goes on to the creation.
MT_PsoLoad(d, descHash, loadFails) ==
    /\ pc[d] = "idle"
    /\ devCache[d] # 0
    /\ LET c == devCache[d]
           load == PsoLoad(caches[c], descHash, FALSE, loadFails)
       IN
       IF load.error \/ load.hit
       THEN /\ last' = PsoReturned(c, descHash, TRUE, load, NothingMade)
            /\ UNCHANGED << pc, tmp >>
       ELSE /\ pc' = [pc EXCEPT ![d] = "createPso"]
            /\ tmp' = [tmp EXCEPT ![d] = [ blob |-> Null, cache |-> c,
                                           descHash |-> descHash, load |-> load ]]
            /\ UNCHANGED last
    /\ UNCHANGED << config, recorder, flushed, mPersistentCache, caches, mCache, devCache >>

\* The rest of PipelineCache::GetOrCreate on the thread of device d:
\* CreatePipeline, StorePipeline, the dirty flag, and the return.
MT_PsoCreateAndStore(d, createFails) ==
    /\ pc[d] = "createPso"
    /\ LET c == tmp[d].cache
           made == PsoCreateAndStore(caches[c], tmp[d].descHash, createFails)
       IN
       /\ caches' = [caches EXCEPT ![c] = made.pcache]
       /\ last' = PsoReturned(c, tmp[d].descHash, TRUE, tmp[d].load, made)
    /\ pc' = [pc EXCEPT ![d] = "idle"]
    /\ tmp' = [tmp EXCEPT ![d] = [blob |-> Null, cache |-> 0]]
    /\ UNCHANGED << config, recorder, flushed, mPersistentCache, mCache, devCache >>

\* The devices of one adapter creating pipelines on independent threads.
NextPso ==
    \/ \E d \in Devices, b \in Buckets : SharedGetOrCreate(d, b)
    \/ \E d \in Devices, h \in DescHashes, lf \in BOOLEAN : MT_PsoLoad(d, h, lf)
    \/ \E d \in Devices, cf \in BOOLEAN : MT_PsoCreateAndStore(d, cf)

SpecPso == Init /\ [][NextPso]_vars

\* ------------------- PersistentCache::GetOrCreate, one store access per step
\* What a finished PersistentCache::GetOrCreate of device d reports.
GocReturned(d, fn, blob, error, createCalls, ctx) ==
    [ op |-> "MT_GetOrCreate", dev |-> d, key |-> ShaderKey, fn |-> fn,
      blob |-> blob, error |-> error, createCalls |-> createCalls,
      hits |-> ctx.hits, trip |-> ctx.trip ]

\* GetOrCreate on the thread of device d, the first LoadData: a hit returns,
\* a miss goes on to createFn.
MT_GocLoad(d, fn) ==
    /\ pc[d] = "idle"
    /\ LET first == LoadData(Ctx(mPersistentCache), ShaderKey) IN
       IF first.blob # Null
       THEN /\ last' = GocReturned(d, fn, first.blob, FALSE, 0, first.ctx)
            /\ UNCHANGED << pc, tmp >>
       ELSE /\ pc' = [pc EXCEPT ![d] = "createFn"]
            /\ tmp' = [tmp EXCEPT ![d] = [blob |-> Null, cache |-> 0, fn |-> fn]]
            /\ UNCHANGED last
    /\ UNCHANGED << config, recorder, flushed, mPersistentCache, caches, mCache, devCache >>

\* createFn runs with its doCache bound to the key; its error is returned.
MT_GocCreate(d) ==
    /\ pc[d] = "createFn"
    /\ LET fn == tmp[d].fn
           created == RunStores(Ctx(mPersistentCache), caches, ShaderKey, fn.stores)
       IN
       /\ mPersistentCache' = created.store
       /\ IF fn.err
          THEN /\ last' = GocReturned(d, fn, Null, TRUE, 1, created)
               /\ pc' = [pc EXCEPT ![d] = "idle"]
               /\ tmp' = [tmp EXCEPT ![d] = NoLocals[d]]
          ELSE /\ pc' = [pc EXCEPT ![d] = "reload"]
               /\ UNCHANGED << tmp, last >>
    /\ UNCHANGED << config, recorder, flushed, caches, mCache, devCache >>

\* The second LoadData, whose result is returned.
MT_GocReload(d) ==
    /\ pc[d] = "reload"
    /\ LET again == LoadData(Ctx(mPersistentCache), ShaderKey) IN
       last' = GocReturned(d, tmp[d].fn, again.blob, FALSE, 1, again.ctx)
    /\ pc' = [pc EXCEPT ![d] = "idle"]
    /\ tmp' = [tmp EXCEPT ![d] = NoLocals[d]]
    /\ UNCHANGED << config, recorder, flushed, mPersistentCache, caches, mCache, devCache >>

\* The devices of one store running GetOrCreate on one key on independent
\* threads.
NextGoc ==
    \/ \E d \in Devices, fn \in CreateFns : MT_GocLoad(d, fn)
    \/ \E d \in Devices : MT_GocCreate(d)
    \/ \E d \in Devices : MT_GocReload(d)

SpecGoc == Init /\ [][NextGoc]_vars

\* ------------------------------------------------ calls computing keys
\* A call of ShaderModule::CreateCacheKey on some module.
ShaderKeyCall(module, entryPointName, stage) ==
    /\ last' = [ op |-> "ShaderModule::CreateCacheKey", module |-> module,
                 entryPointName |-> entryPointName, stage |-> stage,
                 key |-> CreateShaderCacheKey(module, entryPointName, stage) ]
    /\ UNCHANGED << config, recorder, flushed, mPersistentCache, caches, mCache,
                    devCache, pc, tmp >>

\* A call of PipelineCache::CreateCacheKey for a device of some adapter.
PipelineKeyCall(adapter) ==
    /\ last' = [ op |-> "PipelineCache::CreateCacheKey", adapter |-> adapter,
                 key |-> CreatePipelineCacheKey(adapter) ]
    /\ UNCHANGED << config, recorder, flushed, mPersistentCache, caches, mCache,
                    devCache, pc, tmp >>

\* The same on the Vulkan backend.
PipelineKeyCallVk(adapter) ==
    /\ last' = [ op |-> "PipelineCacheVk::CreateCacheKey", adapter |-> adapter,
                 key |-> CreatePipelineCacheKeyVk(adapter) ]
    /\ UNCHANGED << config, recorder, flushed, mPersistentCache, caches, mCache,
                    devCache, pc, tmp >>

\* One build and one host: the keys do not depend on them.
InitKey ==
    /\ Init
    /\ hasPlatformCache /\ supportsPipelineCaching /\ ~isDebug
    /\ mPersistentCache.mCache[PipelineCacheKey] = Null

\* The key computations, called one after the other on any inputs.
NextKey ==
    \/ \E m \in ShaderModules, e \in EntryPointNames, st \in Stages :
          ShaderKeyCall(m, e, st)
    \/ \E a \in Adapters : PipelineKeyCall(a)
    \/ \E a \in VkAdapters : PipelineKeyCallVk(a)

SpecKey == InitKey /\ [][NextKey]_vars

\* ------------------------------------------------ calls on the recorders
\* FingerprintRecorder::Record(value, args...) on recorder r: RecordImpl folds
\* the values into mHash, whatever was called on the recorder before.
Record(r, values) ==
    /\ Len(recorder[r].recorded) + Len(values) <= MaxRecords
    /\ recorder' = [recorder EXCEPT
                        ![r].mHash = HashCombineAll(@, values),
                        ![r].recorded = @ \o values]
    /\ last' = [ op |-> "Record", recorder |-> r, values |-> values,
                 before |-> recorder[r], trip |-> {} ]
    /\ UNCHANGED << config, flushed, mPersistentCache, caches, mCache, devCache, pc, tmp >>

\* FingerprintRecorder::Record of a std::string or a std::vector<uint32_t>:
\* RecordIterable records the elements one by one, first to last.
RecordIterable(r, iterable) ==
    /\ Len(recorder[r].recorded) + Len(iterable) <= MaxRecords
    /\ recorder' = [recorder EXCEPT
                        ![r].mHash = HashCombineAll(@, iterable),
                        ![r].recorded = @ \o iterable]
    /\ last' = [ op |-> "RecordIterable", recorder |-> r, values |-> iterable,
                 before |-> recorder[r], trip |-> {} ]
    /\ UNCHANGED << config, flushed, mPersistentCache, caches, mCache, devCache, pc, tmp >>

\* FingerprintRecorder::GetKey() const on recorder r: the accumulator is
\* returned and the recorder is left as it was; asserted when nothing has been
\* recorded.
GetKey(r) ==
    /\ Len(recorder[r].keys) < MaxGetKeys
    /\ recorder' = [recorder EXCEPT ![r].keys = Append(@, recorder[r].mHash)]
    /\ last' = [ op |-> "GetKey", recorder |-> r, key |-> recorder[r].mHash,
                 before |-> recorder[r],
                 trip |-> IF recorder[r].recorded = <<>>
                          THEN {"GetKey: a value was recorded"} ELSE {} ]
    /\ UNCHANGED << config, flushed, mPersistentCache, caches, mCache, devCache, pc, tmp >>

\* Two recording sessions. A call records one value, or two as value and args.
NextFP ==
    \/ \E r \in Recorders, n \in 1 .. 2 :
          \E values \in [1 .. n -> RecordedValues] : Record(r, values)
    \/ \E r \in Recorders, n \in 0 .. 2 :
          \E iterable \in [1 .. n -> RecordedValues] : RecordIterable(r, iterable)
    \/ \E r \in Recorders : GetKey(r)

SpecFP == InitKey /\ [][NextFP]_vars

\* ------------------------------------------------------------- properties
\* The key of the last PersistentCache call was absent when the call began.
WasAbsent == last.storeBefore.mCache[last.key] = Null

\* C1: PersistentCache::GetOrCreate called on a key the backing store already
\* holds never invokes createFn and returns exactly the blob stored under it.
C1_HitSkipsCreate ==
    ( /\ last.op = "GetOrCreate"
      /\ hasPlatformCache
      /\ ~WasAbsent )
    => /\ last.createCalls = 0
       /\ ~last.error
       /\ last.blob = last.storeBefore.mCache[last.key]
       /\ mPersistentCache = last.storeBefore

\* A call on a present key, made with a callback that would store and one
\* that would fail.
C1_Witness ==
    /\ last.op = "GetOrCreate"
    /\ hasPlatformCache
    /\ ~WasAbsent
    /\ last.fn.stores # <<>>
    /\ last.blob.data = <<2>>

\* C2: GetOrCreate on a key absent from a functioning store invokes createFn
\* exactly once; when createFn stores non-empty bytes b, the returned blob
\* holds b and the store holds b under the key; an entry of the store stays as
\* it is in every later step in which the host does not empty the store, and
\* LoadData returns the entry of the store.
C2_MissCreatesOnceAndPersists ==
    [][ /\ ( /\ last'.op = "GetOrCreate"
             /\ hasPlatformCache
             /\ ~mPersistentCache.mIsDisabled
             /\ mPersistentCache.mCache[last'.key] = Null )
           => /\ last'.createCalls = 1
              /\ \A i \in 1 .. Len(last'.fn.stores) :
                    Len(last'.fn.stores[i].data) > 0
                    => /\ last'.blob # Null
                       /\ last'.blob.data = last'.fn.stores[i].data
                       /\ mPersistentCache'.mCache[last'.key].data
                             = last'.fn.stores[i].data
        /\ last'.op # "NukeCache"
           => \A k \in Keys : mPersistentCache.mCache[k] # Null
                 => mPersistentCache'.mCache[k] = mPersistentCache.mCache[k]
        /\ (last'.op = "LoadData" /\ hasPlatformCache)
           => last'.blob = mPersistentCache.mCache[last'.key]
      ]_vars

\* A miss whose callback stored <<1>>, read back by a later LoadData.
C2_Witness ==
    /\ last.op = "LoadData"
    /\ hasPlatformCache
    /\ last.key = ShaderKey
    /\ last.blob.data = <<1>>

\* C3: when createFn returns successfully without calling its store callback,
\* GetOrCreate returns a null blob, the store is as it was before the call,
\* and LoadData of the key is still null.
C3_NoStoreNoPersist ==
    ( /\ last.op = "GetOrCreate"
      /\ last.createCalls = 1
      /\ last.fn.stores = <<>>
      /\ ~last.fn.err )
    => /\ last.blob = Null
       /\ ~last.error
       /\ mPersistentCache = last.storeBefore
       /\ LoadData(Ctx(mPersistentCache), last.key).blob = Null

\* A miss on a working store with a callback that succeeded and stored nothing.
C3_Witness ==
    /\ last.op = "GetOrCreate"
    /\ hasPlatformCache
    /\ ~mPersistentCache.mIsDisabled
    /\ last.createCalls = 1
    /\ last.fn.stores = <<>>
    /\ ~last.fn.err

\* What C4 says of LoadData and StoreData without a platform cache: every
\* load is null, and no store call changes the host's store or trips an
\* assertion; GetOrCreate invokes createFn once and returns a null blob.
NullCacheIsSilent ==
    /\ last.op = "LoadData" => last.blob = Null
    /\ last.op = "GetOrCreate"
       => /\ last.createCalls = 1
          /\ last.blob = Null
          /\ last.trip = {}
          /\ last.hits = 0
          /\ mPersistentCache = last.storeBefore

\* C4 (as stated): with no backing store configured, LoadData returns null
\* for every key, StoreData has no effect and trips no assertion whatever its
\* arguments, and GetOrCreate invokes createFn and returns a null blob
\* without returning an error.
C4_NullCacheNeverErrors ==
    ~hasPlatformCache
    => /\ NullCacheIsSilent
       /\ last.op = "GetOrCreate" => ~last.error

\* C4 (amended): as above, but GetOrCreate returns an error exactly when
\* createFn returned one.
C4_NullCachePassesCreateError ==
    ~hasPlatformCache
    => /\ NullCacheIsSilent
       /\ last.op = "GetOrCreate" => (last.error <=> last.fn.err)

\* Without a platform cache, a callback handed nullptr with size 0 to its
\* store callback and GetOrCreate returned a null blob and no error.
C4_Witness ==
    /\ ~hasPlatformCache
    /\ last.op = "GetOrCreate"
    /\ last.fn.stores = << [isNull |-> TRUE, data |-> <<>>] >>
    /\ last.blob = Null
    /\ ~last.error

\* C5: the registry never holds two PipelineCaches whose seed blobs have the
\* same content.
C5_OneCachePerSeedContent ==
    \A a, b \in mCache :
        a # b => ~BlobEquals(caches[a].mLibraryBlob, caches[b].mLibraryBlob)

\* C6: the lookup of SharedPipelineCaches::GetOrCreate finds a registered
\* entry exactly when some registered entry's seed blob has the bytes of the
\* loaded seed blob, whichever blob objects hold them.
C6_LookupByContent ==
    [][ (last'.op = "SharedGetOrCreate" /\ supportsPipelineCaching)
        => ( last'.found
             <=> \E e \in mCache :
                    BlobEquals(caches[e].mLibraryBlob, last'.seed) ) ]_vars

\* C7: with pipeline caching supported and a functioning store, any two live
\* devices of the adapter whose caches are connected to the registry hold the
\* same PipelineCache.
C7_DevicesShareOneCache ==
    ( /\ supportsPipelineCaching
      /\ hasPlatformCache
      /\ ~mPersistentCache.mIsDisabled )
    => \A d1, d2 \in Devices :
          ( /\ devCache[d1] # 0
            /\ devCache[d2] # 0
            /\ caches[devCache[d1]].mSharedPipelineCaches
            /\ caches[devCache[d2]].mSharedPipelineCaches )
          => devCache[d1] = devCache[d2]

\* C8: every call of RemovePipelineCache observes reference count 0 and
\* erases exactly one entry, the cache being destroyed; and a connected cache
\* a device holds is in the registry.
C8_RemovedExactlyOnce ==
    /\ (last.op \in {"SharedGetOrCreate", "Release"} /\ last.removeCalled)
       => /\ last.refCount = 0
          /\ last.erased = {last.destroyed}
    /\ \A d \in Devices :
          (devCache[d] # 0 /\ caches[devCache[d]].mSharedPipelineCaches)
          => devCache[d] \in mCache

\* The threads inside mCache.find, mCache.insert or mCache.erase.
InRegistry == { d \in Devices : pc[d] \in {"inFind", "inInsert", "inErase"} }

\* C9: no two threads are inside a lookup or mutation of the registry at the
\* same time.
C9_RegistryAccessIsSerialized == Cardinality(InRegistry) <= 1

\* C10: SharedPipelineCaches::GetOrCreate never returns an entry whose
\* reference count had already reached zero.
C10_NeverReturnsDyingEntry ==
    (last.op = "SharedGetOrCreate" /\ last.found) => last.foundRefCount > 0

\* C11: SharedPipelineCaches::GetOrCreate never adds or changes an entry of
\* the persistent store: the store is the same before and after the call.
C11_LookupLeavesStoreAlone ==
    [][ last'.op = "SharedGetOrCreate" => mPersistentCache' = mPersistentCache ]_vars

\* The assertions of PersistentCache::StoreData.
StoreDataAsserts == {"StoreData: value != nullptr", "StoreData: size > 0"}

\* C12: no call violates an assertion of PersistentCache::StoreData, and the
\* store never holds a zero-length entry.
C12_StoreDataArgumentsValid ==
    /\ last.op # "none" => last.trip \cap StoreDataAsserts = {}
    /\ \A k \in Keys :
          mPersistentCache.mCache[k] # Null
          => Len(mPersistentCache.mCache[k].data) > 0

\* The keys the store holds a blob for.
StoredKeys(store) == { k \in Keys : store.mCache[k] # Null }

\* Pipeline caching is supported and the store takes and keeps writes.
Functioning ==
    /\ supportsPipelineCaching
    /\ hasPlatformCache
    /\ ~mPersistentCache.mIsDisabled

Unseeded(cs) ==
    { c \in LiveCaches(cs) : cs[c].hasLibrary /\ cs[c].mLibraryBlob = Null }

C16_DebugRecompileBypassesLibrary ==
    [][ (last'.op = "PipelineGetOrCreate" /\ ~last'.allowCache)
        => /\ ~last'.queried
           /\ last'.storeResult = "none"
           /\ caches' = caches
      ]_vars

\* C17: the permission flag of a successful ShaderModule::Compile is false
\* exactly when the compile flags ask for debug information and the
\* bytecode was regenerated and not stored into the persistent cache; it is
\* true for every compile without debug flags, for every compile whose
\* bytecode was loaded from the cache and for every recompile that was stored.
C17_FlagFalseOnlyForUncachedDebug ==
    (last.op = "ShaderCompile" /\ ~last.error)
    => ( last.useCachedPipeline
         <=> ~( last.debugFlag /\ last.createCalls = 1 /\ ~last.stored ) )

\* C18: in PipelineCache::GetOrCreate a load result of E_INVALIDARG (name not
\* found) is no error: the call goes on to create the pipeline, and it fails
\* only if the creation or the store of the new pipeline fails; every other
\* failing load result makes the call return an error with no pipeline
\* created, nothing stored and the cache unchanged.
C18_MissIsNotAnError ==
    [][ (last'.op = "PipelineGetOrCreate" /\ last'.queried)
        => /\ last'.loadResult = E_INVALIDARG
              => /\ ~last'.loadError /\ ~last'.hit
                 /\ last'.created \/ last'.error
                 /\ last'.error
                    => (~last'.created \/ last'.storeResult = E_INVALIDARG)
           /\ last'.loadResult \notin {S_OK, E_INVALIDARG}
              => /\ last'.error
                 /\ ~last'.created
                 /\ last'.storeResult = "none"
                 /\ caches' = caches
      ]_vars

\* A load has missed and the pipeline was created, stored and returned; the
\* library of the cache holds it.
C18_Witness ==
    /\ last.op = "PipelineGetOrCreate"
    /\ last.loadResult = E_INVALIDARG
    /\ last.created
    /\ ~last.error
    /\ last.storeResult = S_OK
    /\ last.descHash \in caches[last.cache].mLibrary

\* C19: when StorePipeline reports that the name already exists
\* (E_INVALIDARG), PipelineCache::GetOrCreate still returns the pipeline it
\* created, without an error, in every build configuration.
C19_NameExistsIsBenign ==
    (last.op = "PipelineGetOrCreate" /\ last.storeResult = E_INVALIDARG)
    => (last.created /\ ~last.error)

\* A step of PipelineCache::StorePipelineCacheData.
FlushStep == last'.op = "StorePipelineCacheData"

\* C20 as stated: a flush of a cache whose library is not dirty changes
\* nothing, and a flush of a cache whose library is dirty writes the
\* serialized library once and clears the dirty flag.
C20_FirstFlushWritesAndCleans ==
    [][ FlushStep
        => /\ ~caches[last'.cache].mIsLibraryBlobDirty
              => /\ ~last'.stored
                 /\ caches' = caches
                 /\ mPersistentCache' = mPersistentCache
           /\ caches[last'.cache].mIsLibraryBlobDirty
              => /\ last'.stored
                 /\ ~caches'[last'.cache].mIsLibraryBlobDirty
      ]_vars

\* C20: a flush of a cache whose library is not dirty writes nothing; a
\* flush writes only for a cache connected to the registry in a build that
\* is not _DEBUG, and then it hands the serialized library to the store and
\* changes the cache only by clearing the dirty flag, so that a further
\* flush without a new bake writes nothing; a flush that does not write
\* changes neither the cache nor the store.
C20_FlushIsIdempotent ==
    [][ FlushStep
        => /\ ~caches[last'.cache].mIsLibraryBlobDirty => ~last'.stored
           /\ last'.stored
              => /\ caches[last'.cache].mSharedPipelineCaches
                 /\ ~isDebug
                 /\ last'.data = Serialize(caches[last'.cache].mLibrary)
                 /\ ~caches'[last'.cache].mIsLibraryBlobDirty
                 /\ caches' = [caches EXCEPT ![last'.cache].mIsLibraryBlobDirty = FALSE]
           /\ ~last'.stored
              => /\ caches' = caches
                 /\ mPersistentCache' = mPersistentCache
      ]_vars

\* A second flush with no bake in between: the cache is shared by both
\* devices, holds a baked pipeline, is clean, and the flush wrote nothing.
C20_Witness ==
    /\ last.op = "StorePipelineCacheData"
    /\ ~last.stored
    /\ ~isDebug
    /\ caches[last.cache].mSharedPipelineCaches
    /\ caches[last.cache].mLibrary # {}
    /\ ~caches[last.cache].mIsLibraryBlobDirty
    /\ \A d \in Devices : devCache[d] = last.cache

\* C21: with a functioning store and pipeline caching supported, when a
\* pipeline was baked and its cache flushed, and the only device now holding
\* a pipeline cache was created after that and got a new cache, the first
\* PipelineCache::GetOrCreate of that device with the pipeline's descriptor
\* hash is a hit.
C21_FlushedPipelineHitsOnNextDevice ==
    [][ ( /\ Functioning
          /\ last.op = "SharedGetOrCreate"
          /\ ~last.error
          /\ ~last.found
          /\ \A d \in Devices : devCache[d] \in {0, last.cache}
          /\ last'.op = "PipelineGetOrCreate"
          /\ last'.cache = last.cache
          /\ last'.allowCache
          /\ last'.loadResult # E_FAIL
          /\ last'.descHash \in flushed )
        => last'.hit
      ]_vars

\* Two consecutive calls of ShaderModule::CreateCacheKey.
TwoShaderKeys ==
    /\ last.op = "ShaderModule::CreateCacheKey"
    /\ last'.op = "ShaderModule::CreateCacheKey"

\* C22: for one module, ShaderModule::CreateCacheKey gives the same key for
\* the same entry point and stage, different keys for two entry point names
\* with one stage, and different keys for one entry point name with two stages.
C22_KeyIsolatesEntryPointAndStage ==
    [][ (TwoShaderKeys /\ last.module = last'.module)
        => /\ ( /\ last.entryPointName = last'.entryPointName
                /\ last.stage = last'.stage ) => last.key = last'.key
           /\ ( /\ last.entryPointName # last'.entryPointName
                /\ last.stage = last'.stage ) => last.key # last'.key
           /\ ( /\ last.entryPointName = last'.entryPointName
                /\ last.stage # last'.stage ) => last.key # last'.key
           /\ last'.key = CreateShaderCacheKey(last'.module, last'.entryPointName,
                                               last'.stage)
      ]_vars

\* The key of the compute stage of a SPIR-V module with two words, for the
\* entry point "w4": source, stage, name.
C22_Witness ==
    /\ last.op = "ShaderModule::CreateCacheKey"
    /\ last.module.mOriginalSpirv = << 18, 1 >>
    /\ last.stage = 2
    /\ last.entryPointName = << "w", "4" >>
    /\ last.key = << "1", "2", "1", "2", "w", "4" >>

\* C23: two modules whose source differs (text or words) never get the same
\* key from ShaderModule::CreateCacheKey, whatever the entry points and stages.
C23_KeyInjectiveInSource ==
    [][ (TwoShaderKeys /\ last.module # last'.module) => last.key # last'.key ]_vars

\* C24: two adapters that differ in deviceId, vendorId or subsystem id /
\* pipeline cache UUID never get the same pipeline-cache key.
C24_KeyIdentifiesAdapter ==
    [][ ( /\ last.op \in { "PipelineCache::CreateCacheKey",
                           "PipelineCacheVk::CreateCacheKey" }
          /\ last'.op = last.op
          /\ last.adapter # last'.adapter )
        => last.key # last'.key
      ]_vars

\* A shader compile that succeeded with shader caching enabled.
CachingCompile(call) ==
    /\ call.op = "ShaderCompile"
    /\ ~call.error
    /\ ~call.toggleDisable

\* C25: with a functioning store, the first compile of a (module, stage,
\* entry point) adds exactly one shader entry, compiling the same one again
\* adds none, and compiling a different one next (another entry point, or a
\* module with another source) adds one more, so that two of them leave two
\* entries in a store that was empty.
C25_OneEntryPerCompiledShader ==
    [][ ( /\ hasPlatformCache /\ ~mPersistentCache.mIsDisabled
          /\ CachingCompile(last') )
        => /\ StoredKeys(mPersistentCache) = {}
              => Cardinality(StoredKeys(mPersistentCache')) = 1
           /\ ( /\ CachingCompile(last)
                /\ StoredKeys(last.storeBefore) = {}
                /\ last.module = last'.module
                /\ last.entryPointName = last'.entryPointName
                /\ last.stage = last'.stage )
              => mPersistentCache' = mPersistentCache
           /\ ( /\ CachingCompile(last)
                /\ StoredKeys(last.storeBefore) = {}
                /\ ~mPersistentCache.mIsDisabled
                /\ << last.module, last.entryPointName, last.stage >>
                       # << last'.module, last'.entryPointName, last'.stage >> )
              => Cardinality(StoredKeys(mPersistentCache')) = 2
      ]_vars

C27_UnusableSeedIsAbsence ==
    ( /\ last.op = "SharedGetOrCreate"
      /\ supportsPipelineCaching
      /\ last.seed # Null
      /\ ~CreatePipelineLibrary(last.seed.data).ok )
    => /\ ~last.error
       /\ last.cache # 0
       /\ caches[last.cache].hasLibrary
       /\ caches[last.cache].mLibrary = {}

\* C28: without pipeline-library support no pipeline cache ever has a library,
\* every PipelineCache::GetOrCreate that returns no error has created a new
\* pipeline without asking or changing a library, and no flush writes; with
\* support, the creation of a new pipeline cache whose persisted seed is
\* absent or zero-length returns no error, violates no assertion, and yields a
\* cache with an empty library.
C28_PassthroughOrEmptyLibrary ==
    /\ ~supportsPipelineCaching
       => /\ \A c \in LiveCaches(caches) : ~caches[c].hasLibrary
          /\ last.op = "PipelineGetOrCreate"
             => /\ ~last.queried /\ ~last.hit /\ last.storeResult = "none"
                /\ ~last.error => last.created
          /\ last.op = "StorePipelineCacheData" => ~last.stored
    /\ ( /\ supportsPipelineCaching
         /\ last.op = "SharedGetOrCreate"
         /\ ~last.found
         /\ Len(last.seed.data) = 0 )
       => /\ ~last.error
          /\ last.trip = {}
          /\ last.cache # 0
          /\ caches[last.cache].hasLibrary
          /\ caches[last.cache].mLibrary = {}

\* Two recorders were fed the same values in the same order.
SameSequence(r1, r2) == recorder[r1].recorded = recorder[r2].recorded

\* Two recorders were fed the same two different values, in swapped order.
SwappedOrder(r1, r2) ==
    /\ Len(recorder[r1].recorded) = 2
    /\ recorder[r1].recorded[1] # recorder[r1].recorded[2]
    /\ recorder[r2].recorded = << recorder[r1].recorded[2], recorder[r1].recorded[1] >>

C30_RecorderOnlyMovesForward ==
    [][ /\ ( last'.op = "GetKey" /\ last'.before.recorded = <<>> )
           => last'.trip # {}
        /\ ( /\ last'.op \in {"Record", "RecordIterable"}
             /\ last'.values # <<>>
             /\ last'.before.keys # <<>> )
           => /\ last'.trip # {}
              /\ recorder'[last'.recorder].mHash = last'.before.mHash
      ]_vars

\* A step of PipelineCache::GetOrCreate on a cache with a library in which
\* the driver fails neither the load nor the creation.
BakeStep ==
    /\ last'.op = "PipelineGetOrCreate"
    /\ caches[last'.cache].hasLibrary
    /\ last'.loadResult # E_FAIL
    /\ last'.hit \/ last'.created

\* C31: in a PipelineCache with a library, GetOrCreate(desc, descHash) is a
\* hit exactly when descHash is already in the library; a hit creates no
\* pipeline and changes nothing but the hit count, which grows by one; a miss
\* creates one pipeline, stores it under descHash, sets the dirty flag and
\* leaves the hit count alone; no pipeline ever leaves the library.
C31_HitExactlyWhenStored ==
    [][ BakeStep
        => LET c == last'.cache IN
           /\ last'.hit <=> last'.descHash \in caches[c].mLibrary
           /\ last'.hit => ( ~last'.created /\ caches' = caches )
           /\ ~last'.hit
              => /\ last'.created
                 /\ ~last'.error
                 /\ last'.storeResult = S_OK
                 /\ caches'[c].mLibrary = caches[c].mLibrary \cup {last'.descHash}
                 /\ caches'[c].mIsLibraryBlobDirty
           /\ caches[c].mLibrary \subseteq caches'[c].mLibrary
      ]_vars

\* C32: on a functioning store, the load-or-create transaction of a shader
\* whose key is not in the store performs no successful LoadData (the store's
\* hit count stays), and the transaction of a shader whose key is in the
\* store performs exactly one.
C32_HitsCountOnlyReuse ==
    [][ ( /\ last'.op = "GetOrCreate"
          /\ hasPlatformCache
          /\ ~mPersistentCache.mIsDisabled )
        => /\ mPersistentCache.mCache[last'.key] = Null => last'.hits = 0
           /\ mPersistentCache.mCache[last'.key] # Null => last'.hits = 1
      ]_vars

\* A step of ComputePipeline::Initialize on a cache with a library in which
\* neither the shader compiler nor the driver fails.
CreatePipelineStep ==
    /\ last'.op = "ComputePipelineInitialize"
    /\ caches[last'.cache].hasLibrary
    /\ ~last'.compileError
    /\ last'.loadResult # E_FAIL

\* After the creation of its PipelineCache only flushes write the adapter's
\* entry: PipelineCache::GetOrCreate leaves the store as it is, emptying or
\* disabling the store changes no pipeline cache, and apart from the host
\* emptying the store the entry under the adapter's pipeline-cache key changes
\* only in SharedPipelineCaches::GetOrCreate and in StorePipelineCacheData.
BakesLeaveTheStoreAlone ==
    /\ last'.op = "PipelineGetOrCreate" => mPersistentCache' = mPersistentCache
    /\ last'.op \in {"NukeCache", "DisableCache"} => caches' = caches
    /\ ( /\ mPersistentCache'.mCache[PipelineCacheKey]
                # mPersistentCache.mCache[PipelineCacheKey]
         /\ last'.op # "NukeCache" )
       => last'.op \in {"SharedGetOrCreate", "StorePipelineCacheData"}

\* C33 as stated: PipelineCache::GetOrCreate and the store leave each other
\* alone, and whatever the host did to the store since the PipelineCache was
\* created, the creation of a pipeline is a library hit exactly when its
\* descriptor hash is in the library.
C33_StoreNeverChangesHits ==
    [][ /\ BakesLeaveTheStoreAlone
        /\ CreatePipelineStep
           => ( last'.hit <=> last'.descHash \in caches[last'.cache].mLibrary )
      ]_vars

\* C33: PipelineCache::GetOrCreate and the store leave each other alone; in
\* a build without _DEBUG the creation of a pipeline is a library hit exactly
\* when its descriptor hash is in the library, whatever the host did to the
\* store; in a _DEBUG build a creation whose shader had to be regenerated
\* (its bytecode was not in the store) is a miss also for a descriptor hash
\* that is in the library.
C33_StoreChangesHitsOnlyInDebug ==
    [][ /\ BakesLeaveTheStoreAlone
        /\ CreatePipelineStep
           => /\ ~isDebug
                 => ( last'.hit <=> last'.descHash \in caches[last'.cache].mLibrary )
              /\ last'.regenerated => ~last'.hit
              /\ last'.hit => last'.descHash \in caches[last'.cache].mLibrary
      ]_vars

\* Without _DEBUG: the host emptied the store under a connected pipeline
\* cache, and the creation of a pipeline baked before is a hit all the same,
\* with its shader compiled anew.
C33_Witness ==
    /\ last.op = "ComputePipelineInitialize"
    /\ ~isDebug
    /\ last.hit
    /\ hasPlatformCache
    /\ caches[last.cache].mSharedPipelineCaches
    /\ StoredKeys(mPersistentCache) = {ShaderKey}

\* The bytes a creation callback hands to doCache are not empty.
StoresBytes(fn) == \E i \in 1 .. Len(fn.stores) : Len(fn.stores[i].data) > 0

\* The second LoadData of a GetOrCreate returns, on a functioning store.
ReloadStep ==
    /\ Functioning
    /\ \E d \in Devices : pc[d] = "reload" /\ pc'[d] = "idle"
    /\ last'.op = "MT_GetOrCreate"
    /\ last'.createCalls = 1
    /\ ~last'.error

C35_CreateErrorIsReturned ==
    ( /\ last.op = "GetOrCreate"
      /\ last.createCalls = 1
      /\ last.fn.err )
    => /\ last.error
       /\ last.blob = Null
       /\ last.loads = 1
       /\ last.hits = 0
       /\ mPersistentCache = last.storeBefore

\* On a functioning store a createFn failed and GetOrCreate returned its
\* error.
C35_Witness ==
    /\ Functioning
    /\ last.op = "GetOrCreate"
    /\ last.createCalls = 1
    /\ last.fn.err
    /\ last.error

\* C36: when PipelineCache::Initialize fails inside
\* SharedPipelineCaches::GetOrCreate, the call returns the error, the
\* destructor of the half-built cache erases nothing from the registry and
\* trips no assertion.
C36_FailedInitializeLeavesRegistry ==
    ( /\ last.op = "SharedGetOrCreate"
      /\ last.destroyed # 0 )
    => /\ last.error
       /\ last.erased = {}
       /\ last.trip = {}

\* C37: the registry holds exactly the live PipelineCache objects whose
\* back-reference to the registry is non-null; in particular it is empty
\* once every device has released its cache.
C37_RegistryIsTheConnectedLiveCaches ==
    /\ mCache = { c \in LiveCaches(caches) : caches[c].mSharedPipelineCaches }
    /\ (\A d \in Devices : devCache[d] = 0) => mCache = {}

\* The pipelines of the library serialized in a blob.
PipelinesIn(blob) == CreatePipelineLibrary(blob.data).lib

\* C38: for every registered PipelineCache whose dirty flag is false, every
\* pipeline of its library is in the blob held under the adapter's
\* pipeline-cache key or was in the cache's seed blob.
C38_CleanMeansPersisted ==
    \A c \in mCache :
        (caches[c].alive /\ ~caches[c].mIsLibraryBlobDirty)
        => caches[c].mLibrary \subseteq
              PipelinesIn(mPersistentCache.mCache[PipelineCacheKey])
              \cup PipelinesIn(caches[c].mLibraryBlob)

\* A flush that reached SharedPipelineCaches::StorePipelineCacheData.
FlushReachedTheStore ==
    /\ last'.op = "StorePipelineCacheData"
    /\ last'.stored

CompiledShaderOf(call, useDXC) ==
    [ cachedBlob |-> call.blob,
      compiledFXCShader |-> call.createCalls = 1 /\ ~call.error /\ ~useDXC,
      compiledDXCShader |-> call.createCalls = 1 /\ ~call.error /\ useDXC ]

\* GetD3D12ShaderBytecode that knows the cached blob only.
GetD3D12ShaderBytecode_CachedOnly(compiledShader) ==
    IF compiledShader.cachedBlob # Null THEN "cachedBlob" ELSE "UNREACHABLE"

\* CompiledShader::GetD3D12ShaderBytecode: the source the bytecode is taken
\* from.
GetD3D12ShaderBytecode(compiledShader) ==
    IF compiledShader.cachedBlob # Null THEN "cachedBlob"
    ELSE IF compiledShader.compiledFXCShader THEN "compiledFXCShader"
    ELSE IF compiledShader.compiledDXCShader THEN "compiledDXCShader"
    ELSE "UNREACHABLE"

\* C40: after a ShaderModule::Compile that returned no error,
\* GetD3D12ShaderBytecode of the compiled shader finds a bytecode source
\* (the cached blob, the FXC result or the DXC result) with either compiler.
C40_CompiledShaderHasBytecode ==
    (last.op = "ShaderCompile" /\ ~last.error)
    => \A useDXC \in BOOLEAN :
          GetD3D12ShaderBytecode(CompiledShaderOf(last, useDXC)) # "UNREACHABLE"

\* A compile missed, stored nothing and returned without a cached blob.
C40_Witness ==
    /\ last.op = "ShaderCompile"
    /\ ~last.error
    /\ last.createCalls = 1
    /\ ~last.stored
    /\ last.blob = Null
====
